---- MODULE Spec2Model ----
(***************************************************************************)
(* Model of BrowserAgent (src/browser_agent.py): the ReAct control loop    *)
(* `run`, the response parser `parse_llm_response`, the action executor    *)
(* `execute_action` and the browser lifecycle start_browser/stop_browser.  *)
(*                                                                         *)
(* Text is a sequence of tokens.  "NL" is the newline character, "SP" a    *)
(* blank; the four protocol markers are one token each; "{", "}", "[",     *)
(* "]", "," and "5" are JSON punctuation and a JSON number; a token        *)
(* "k=v" is the JSON member "k": "v"; every other token is a word.         *)
(***************************************************************************)
EXTENDS Integers, Sequences, FiniteSets, TLC

VARIABLES pc, max_iterations, iteration, messages, playwright, browser, page,
          calls, pageCalls, execLog, exit, pst

vars == <<pc, max_iterations, iteration, messages, playwright, browser, page,
          calls, pageCalls, execLog, exit, pst>>

runVars == <<pc, max_iterations, iteration, messages, playwright, browser, page,
             calls, pageCalls, execLog, exit>>

(***************************************************************************)
(* Bounds                                                                  *)
(***************************************************************************)
\* largest value of the max_iterations attribute a run is configured with
MaxConfiguredIterations == 3
\* largest number of lines of a text handed to the parser on its own
MaxLines == 3
\* largest number of lines an Action Input block continues over
MaxBlockLines == 2

(***************************************************************************)
(* str methods used by the parser                                          *)
(***************************************************************************)
Whitespace == {"SP", "NL"}

RECURSIVE lstrip(_)
lstrip(s) ==
  IF s # <<>> /\ Head(s) \in Whitespace THEN lstrip(Tail(s)) ELSE s

RECURSIVE rstrip(_)
rstrip(s) ==
  IF s # <<>> /\ s[Len(s)] \in Whitespace
    THEN rstrip(SubSeq(s, 1, Len(s) - 1))
    ELSE s

strip(s) == rstrip(lstrip(s))

Contains(s, t) == \E k \in 1..Len(s) : s[k] = t

index(s, t) == CHOOSE k \in 1..Len(s) : s[k] = t /\ \A j \in 1..(k-1) : s[j] # t

rindex(s, t) ==
  CHOOSE k \in 1..Len(s) : s[k] = t /\ \A j \in (k+1)..Len(s) : s[j] # t

RECURSIVE split(_)
split(s) ==
  IF Contains(s, "NL")
    THEN <<SubSeq(s, 1, index(s, "NL") - 1)>>
           \o split(SubSeq(s, index(s, "NL") + 1, Len(s)))
    ELSE <<s>>

startswith(line, marker) == Len(line) > 0 /\ line[1] = marker

\* str.replace(marker, ""): every occurrence of the marker is removed
replace(line, marker) == SelectSeq(line, LAMBDA t : t # marker)

(***************************************************************************)
(* json.loads and json.dumps                                               *)
(***************************************************************************)
MemberKey(tok) ==
  CASE tok = "url=u" -> "url"
    [] tok = "selector=s" -> "selector"
    [] tok = "text=t" -> "text"
    [] tok = "path=p" -> "path"
    [] OTHER -> "?"

MemberValue(tok) ==
  CASE tok = "url=u" -> "u"
    [] tok = "selector=s" -> "s"
    [] tok = "text=t" -> "t"
    [] tok = "path=p" -> "p"
    [] OTHER -> "?"

MemberTokens == {"url=u", "selector=s", "text=t", "path=p"}

EmptyDict == [type |-> "dict", items |-> {}]

\* member (, member)*  between the braces of an object
IsMemberList(t) ==
  /\ Len(t) % 2 = 1
  /\ \A k \in 1..Len(t) :
       IF k % 2 = 1 THEN t[k] \in MemberTokens ELSE t[k] = ","

\* [ok, val]: ok = FALSE stands for json.JSONDecodeError
json_loads(s) ==
  LET t == SelectSeq(s, LAMBDA x : x \notin Whitespace)
      inner == SubSeq(t, 2, Len(t) - 1)
  IN  IF t = <<"5">> THEN [ok |-> TRUE, val |-> [type |-> "number", items |-> {}]]
      ELSE IF t = <<"[", "]">>
        THEN [ok |-> TRUE, val |-> [type |-> "list", items |-> {}]]
      ELSE IF Len(t) >= 2 /\ t[1] = "{" /\ t[Len(t)] = "}"
                /\ (inner = <<>> \/ IsMemberList(inner))
        THEN [ok |-> TRUE,
              val |-> [type |-> "dict",
                       items |-> {<<MemberKey(inner[k]), MemberValue(inner[k])>> :
                                    k \in {j \in 1..Len(inner) : j % 2 = 1}}]]
      ELSE [ok |-> FALSE, val |-> EmptyDict]

(***************************************************************************)
(* parse_llm_response, one loop iteration at a time                        *)
(***************************************************************************)
StopMarkers == {"Thought:", "Action:", "Final Answer:"}

\* the "step back one line" is left out: the cursor passes the ending marker
RECURSIVE Accumulate_SkipsMarker(_, _, _)
Accumulate_SkipsMarker(lines, i, json_str) ==
  IF i <= Len(lines)
       /\ ~(\E m \in StopMarkers : startswith(strip(lines[i]), m))
    THEN Accumulate_SkipsMarker(lines, i + 1, json_str \o <<"NL">> \o strip(lines[i]))
    ELSE [str |-> json_str, i |-> i + 1]

\* the inner while loop of the Action Input branch: [str, i]
RECURSIVE Accumulate(_, _, _)
Accumulate(lines, i, json_str) ==
  IF i <= Len(lines)
       /\ ~(\E m \in StopMarkers : startswith(strip(lines[i]), m))
    THEN Accumulate(lines, i + 1, json_str \o <<"NL">> \o strip(lines[i]))
    ELSE [str |-> json_str, i |-> i]

ParseInit(response) ==
  [lines |-> split(strip(response)), i |-> 1,
   thought |-> <<>>, action |-> <<>>, params |-> EmptyDict,
   status |-> "scan"]

ParseStep(st) ==
  IF st.i > Len(st.lines) THEN [st EXCEPT !.status = "done"]
  ELSE
    LET line == strip(st.lines[st.i]) IN
    IF startswith(line, "Thought:")
      THEN [st EXCEPT !.thought = strip(replace(line, "Thought:")), !.i = st.i + 1]
    ELSE IF startswith(line, "Action:")
      THEN [st EXCEPT !.action = strip(replace(line, "Action:")), !.i = st.i + 1]
    ELSE IF startswith(line, "Action Input:")
      THEN LET acc == Accumulate(st.lines, st.i + 1,
                                 strip(replace(line, "Action Input:")))
               json_str == acc.str
               first == json_loads(json_str)
               sub == SubSeq(json_str, index(json_str, "{"), rindex(json_str, "}"))
           IN  IF first.ok
                 THEN [st EXCEPT !.params = first.val, !.i = acc.i]
               ELSE IF Contains(json_str, "{") /\ Contains(json_str, "}")
                 THEN IF json_loads(sub).ok
                        THEN [st EXCEPT !.params = json_loads(sub).val, !.i = acc.i]
                        ELSE [st EXCEPT !.status = "raised", !.i = acc.i - 1]
               ELSE [st EXCEPT !.i = acc.i]
    ELSE IF startswith(line, "Final Answer:")
      THEN [st EXCEPT !.action = <<"FINISH">>,
                      !.thought = strip(replace(line, "Final Answer:")),
                      !.status = "done"]
    ELSE [st EXCEPT !.i = st.i + 1]

RECURSIVE ParseRun(_)
ParseRun(st) == IF st.status = "scan" THEN ParseRun(ParseStep(st)) ELSE st

\* [raised, thought, action, params]
parse_llm_response(response) ==
  LET st == ParseRun(ParseInit(response))
  IN  [raised |-> st.status = "raised", thought |-> st.thought,
       action |-> st.action, params |-> st.params]

(***************************************************************************)
(* execute_action                                                          *)
(***************************************************************************)
\* dict.get(key, default) on a parsed JSON object
get(params, key, default) ==
  IF \E m \in params.items : m[1] = key
    THEN (CHOOSE m \in params.items : m[1] = key)[2]
    ELSE default

Success(value) == [success |-> TRUE, key |-> "result", value |-> value]
Failure(value) == [success |-> FALSE, key |-> "error", value |-> value]

\* one page method call: the call made, then its result or its exception
PageCall(method, args, ok, ret) ==
  [exc |-> IF ok THEN "none" ELSE "Error",
   ret |-> ret,
   pcalls |-> <<[method |-> method, args |-> args]>>]

\* params.get on a JSON value that is not an object
NoGet == [exc |-> "AttributeError", ret |-> Failure(<<>>), pcalls |-> <<>>]

\* the dispatch on the action name is lost: every action navigates
ActionBody_AlwaysNavigates(action, params, ok) ==
  IF params.type # "dict" THEN NoGet
  ELSE LET url == get(params, "url", "")
       IN  PageCall("goto", <<url>>, ok, Success(<<"Navigated to", url>>))

\* the body of the try block: [exc, ret, pcalls]
ActionBody(action, params, ok) ==
  IF action = <<"navigate">> THEN
    IF params.type # "dict" THEN NoGet
    ELSE LET url == get(params, "url", "")
         IN  PageCall("goto", <<url>>, ok, Success(<<"Navigated to", url>>))
  ELSE IF action = <<"click">> THEN
    IF params.type # "dict" THEN NoGet
    ELSE LET selector == get(params, "selector", "")
         IN  PageCall("click", <<selector>>, ok, Success(<<"Clicked on", selector>>))
  ELSE IF action = <<"type">> THEN
    IF params.type # "dict" THEN NoGet
    ELSE LET selector == get(params, "selector", "")
             text == get(params, "text", "")
         IN  PageCall("fill", <<selector, text>>, ok,
                      Success(<<"Typed", text, "into", selector>>))
  ELSE IF action = <<"get_text">> THEN
    IF params.type # "dict" THEN NoGet
    ELSE LET selector == get(params, "selector", "")
         IN  PageCall("text_content", <<selector>>, ok, Success(<<"page text">>))
  ELSE IF action = <<"screenshot">> THEN
    IF params.type # "dict" THEN NoGet
    ELSE LET path == get(params, "path", "screenshot.png")
         IN  PageCall("screenshot", <<path>>, ok,
                      Success(<<"Screenshot saved to", path>>))
  ELSE [exc |-> "none",
        ret |-> Failure(<<"Unknown action:">> \o action),
        pcalls |-> <<>>]

\* execute_action with the try/except left out: the exception propagates
execute_action_NoTry(pg, action, params, ok) ==
  IF pg = "none"
    THEN [raised |-> FALSE, result |-> Failure(<<"Browser not started">>),
          pcalls |-> <<>>]
    ELSE LET b == ActionBody(action, params, ok)
         IN  [raised |-> b.exc # "none", result |-> b.ret, pcalls |-> b.pcalls]

\* [raised, result, pcalls]; pg is self.page, ok whether the page call succeeds
execute_action(pg, action, params, ok) ==
  IF pg = "none"
    THEN [raised |-> FALSE, result |-> Failure(<<"Browser not started">>),
          pcalls |-> <<>>]
    ELSE LET b == ActionBody(action, params, ok)
         IN  IF b.exc # "none"
               THEN [raised |-> FALSE, result |-> Failure(<<b.exc>>),
                     pcalls |-> b.pcalls]
               ELSE [raised |-> FALSE, result |-> b.ret, pcalls |-> b.pcalls]

json_dumps(result) ==
  <<"{", "success:", IF result.success THEN "true" ELSE "false", ",">>
    \o <<IF result.key = "result" THEN "result:" ELSE "error:">>
    \o result.value \o <<"}">>

(***************************************************************************)
(* start_browser / stop_browser                                            *)
(***************************************************************************)
\* failAt = k: the k-th statement raises; 0: none does
start_browser(failAt) ==
  [playwright |-> IF failAt = 1 THEN "none" ELSE "open",
   browser |-> IF failAt \in {1, 2} THEN "none" ELSE "open",
   page |-> IF failAt \in {1, 2, 3} THEN "none" ELSE "open",
   raised |-> failAt # 0]

\* failAt = k: the k-th close call raises when it is made; 0: none does
stop_browser(h, failAt) ==
  LET r1 == h.page # "none" /\ failAt = 1
      r2 == ~r1 /\ h.browser # "none" /\ failAt = 2
      r3 == ~r1 /\ ~r2 /\ h.playwright # "none" /\ failAt = 3
  IN  [page |-> IF h.page # "none" /\ ~r1 THEN "closed" ELSE h.page,
       browser |-> IF h.browser # "none" /\ ~r1 /\ ~r2 THEN "closed" ELSE h.browser,
       playwright |-> IF h.playwright # "none" /\ ~r1 /\ ~r2 /\ ~r3
                        THEN "closed" ELSE h.playwright,
       raised |-> r1 \/ r2 \/ r3]

(***************************************************************************)
(* Model responses the language model may give in an iteration             *)
(***************************************************************************)
Join(lines) ==
  LET RECURSIVE J(_)
      J(k) == IF k > Len(lines) THEN <<>>
              ELSE IF k = Len(lines) THEN lines[k]
              ELSE lines[k] \o <<"NL">> \o J(k + 1)
  IN  J(1)

LThought == <<"Thought:", "SP", "plan">>
LNavigate == <<"Action:", "SP", "navigate">>
LHover == <<"Action:", "SP", "hover">>
LInputUrl == <<"Action Input:", "SP", "{", "url=u", "}">>
LInputList == <<"Action Input:", "SP", "[", "]">>
LInputTruncated == <<"Action Input:", "SP", "{", "url=u">>
LInputBad == <<"Action Input:", "SP", "{", "oops", "}">>
LFinal == <<"Final Answer:", "SP", "done">>
LPlain == <<"hello">>
LActionFinish == <<"Action:", "SP", "FINISH">>
LFinalTwice == <<"Final Answer:", "SP", "see", "Final Answer:", "SP">>
LActionTwice == <<"Action:", "click", "Action:">>

RFinal == Join(<<LThought, LFinal>>)
RNavigate == Join(<<LThought, LNavigate, LInputUrl>>)
RNavigateList == Join(<<LNavigate, LInputList>>)
RHover == Join(<<LThought, LHover, LInputTruncated>>)
RPlain == Join(<<LPlain>>)
RBadJson == Join(<<LThought, LNavigate, LInputBad>>)
RBadJsonFinal == Join(<<LInputBad, LFinal>>)
RActionFinish == Join(<<LThought, LActionFinish>>)

Responses ==
  {RFinal, RNavigate, RNavigateList, RHover, RPlain, RBadJson, RBadJsonFinal,
   RActionFinish}

\* a line, after strip, begins with the terminal marker
HasFinalLine(text) ==
  \E k \in 1..Len(split(strip(text))) :
    startswith(strip(split(strip(text))[k]), "Final Answer:")

(***************************************************************************)
(* run                                                                     *)
(***************************************************************************)
Message(role, content) == [role |-> role, content |-> content]

SystemPrompt == <<"You are a browser automation agent.">>
Clarification == <<"Please provide a valid action in the specified format.">>
Exhaustion == <<"Maximum iterations reached without completion.">>

NoExit == [kind |-> "none", cause |-> "none", value |-> <<>>]
Return(cause, value) == [kind |-> "return", cause |-> cause, value |-> value]
Raise(cause) == [kind |-> "raise", cause |-> cause, value |-> <<>>]

Directive == parse_llm_response(messages[Len(messages)].content)

\* run is entered: start_browser, then the transcript is seeded
RunStart(failAt) ==
  /\ pc = "idle"
  /\ LET h == start_browser(failAt) IN
       /\ playwright' = h.playwright
       /\ browser' = h.browser
       /\ page' = h.page
       /\ calls' = Append(calls, "start_browser")
       /\ IF h.raised
            THEN /\ exit' = Raise("start")
                 /\ pc' = "finally"
                 /\ UNCHANGED messages
            ELSE /\ messages' = <<Message("system", SystemPrompt),
                                  Message("user", <<"Task:", "SP", "task">>)>>
                 /\ pc' = "loop"
                 /\ UNCHANGED exit
  /\ iteration' = 0
  /\ UNCHANGED <<max_iterations, pageCalls, execLog, pst>>

\* client.chat.completions.create returns a message, which is appended
ModelReturns(r) ==
  /\ pc = "loop"
  /\ iteration < max_iterations
  /\ calls' = Append(calls, "model")
  /\ messages' = Append(messages, Message("assistant", r))
  /\ pc' = "parse"
  /\ UNCHANGED <<max_iterations, iteration, playwright, browser, page,
                 pageCalls, execLog, exit, pst>>

\* the failed model call is retried instead of propagating
ModelFails_Retry ==
  /\ pc = "loop"
  /\ iteration < max_iterations
  /\ calls' = Append(calls, "model")
  /\ UNCHANGED <<pc, exit, max_iterations, iteration, messages, playwright,
                 browser, page, pageCalls, execLog, pst>>

\* the failed model call is swallowed and the loop goes on
ModelFails_Continue ==
  /\ pc = "loop"
  /\ iteration < max_iterations
  /\ calls' = Append(calls, "model")
  /\ iteration' = iteration + 1
  /\ UNCHANGED <<pc, exit, max_iterations, messages, playwright, browser, page,
                 pageCalls, execLog, pst>>

\* client.chat.completions.create raises
ModelFails ==
  /\ pc = "loop"
  /\ iteration < max_iterations
  /\ calls' = Append(calls, "model")
  /\ exit' = Raise("model")
  /\ pc' = "finally"
  /\ UNCHANGED <<max_iterations, iteration, messages, playwright, browser, page,
                 pageCalls, execLog, pst>>

\* parse_llm_response raises out of run
ParseRaises ==
  /\ pc = "parse"
  /\ Directive.raised
  /\ exit' = Raise("parse")
  /\ pc' = "finally"
  /\ UNCHANGED <<max_iterations, iteration, messages, playwright, browser, page,
                 calls, pageCalls, execLog, pst>>

\* the return placed outside the try/finally: control leaves without cleanup
Finish_OutsideTry ==
  /\ pc = "parse"
  /\ ~Directive.raised
  /\ Directive.action = <<"FINISH">>
  /\ exit' = Return("final", Directive.thought)
  /\ pc' = "done"
  /\ UNCHANGED <<max_iterations, iteration, messages, playwright, browser, page,
                 calls, pageCalls, execLog, pst>>

\* action == "FINISH": return thought
Finish ==
  /\ pc = "parse"
  /\ ~Directive.raised
  /\ Directive.action = <<"FINISH">>
  /\ exit' = Return("final", Directive.thought)
  /\ pc' = "finally"
  /\ UNCHANGED <<max_iterations, iteration, messages, playwright, browser, page,
                 calls, pageCalls, execLog, pst>>

\* the executor is called with the default parameters, not the parsed ones
Execute_DropsParams(ok) ==
  /\ pc = "parse"
  /\ ~Directive.raised
  /\ Directive.action # <<"FINISH">>
  /\ Directive.action # <<>>
  /\ LET r == execute_action(page, Directive.action, EmptyDict, ok) IN
       /\ calls' = Append(calls, "execute_action")
       /\ pageCalls' = pageCalls \o r.pcalls
       /\ execLog' = Append(execLog,
                            [action |-> Directive.action, params |-> EmptyDict,
                             ok |-> ok, raised |-> r.raised, result |-> r.result])
       /\ messages' =
            Append(messages,
                   Message("user", <<"Observation:", "SP">> \o json_dumps(r.result)))
       /\ iteration' = iteration + 1
       /\ pc' = "loop"
       /\ UNCHANGED exit
  /\ UNCHANGED <<max_iterations, playwright, browser, page, pst>>

\* a non-empty action: execute_action, then the observation is appended
Execute(ok) ==
  /\ pc = "parse"
  /\ ~Directive.raised
  /\ Directive.action # <<"FINISH">>
  /\ Directive.action # <<>>
  /\ LET r == execute_action(page, Directive.action, Directive.params, ok) IN
       /\ calls' = Append(calls, "execute_action")
       /\ pageCalls' = pageCalls \o r.pcalls
       /\ execLog' = Append(execLog,
                            [action |-> Directive.action, params |-> Directive.params,
                             ok |-> ok, raised |-> r.raised, result |-> r.result])
       /\ IF r.raised
            THEN /\ exit' = Raise("execute_action")
                 /\ pc' = "finally"
                 /\ UNCHANGED <<messages, iteration>>
            ELSE /\ messages' =
                      Append(messages,
                             Message("user", <<"Observation:", "SP">>
                                               \o json_dumps(r.result)))
                 /\ iteration' = iteration + 1
                 /\ pc' = "loop"
                 /\ UNCHANGED exit
  /\ UNCHANGED <<max_iterations, playwright, browser, page, pst>>

\* the clarification request is forgotten
Clarify_NoAppend ==
  /\ pc = "parse"
  /\ ~Directive.raised
  /\ Directive.action = <<>>
  /\ iteration' = iteration + 1
  /\ pc' = "loop"
  /\ UNCHANGED <<messages, max_iterations, playwright, browser, page, calls,
                 pageCalls, execLog, exit, pst>>

\* the clarification request overwrites the model message it answers
Clarify_Rewrites ==
  /\ pc = "parse"
  /\ ~Directive.raised
  /\ Directive.action = <<>>
  /\ messages' = [messages EXCEPT ![Len(messages)] = Message("user", Clarification)]
  /\ iteration' = iteration + 1
  /\ pc' = "loop"
  /\ UNCHANGED <<max_iterations, playwright, browser, page, calls, pageCalls,
                 execLog, exit, pst>>

\* the clarification branch does not use up an iteration
Clarify_NoAdvance ==
  /\ pc = "parse"
  /\ ~Directive.raised
  /\ Directive.action = <<>>
  /\ messages' = Append(messages, Message("user", Clarification))
  /\ pc' = "loop"
  /\ UNCHANGED <<iteration, max_iterations, playwright, browser, page, calls,
                 pageCalls, execLog, exit, pst>>

\* no action: the clarification request is appended
Clarify ==
  /\ pc = "parse"
  /\ ~Directive.raised
  /\ Directive.action = <<>>
  /\ messages' = Append(messages, Message("user", Clarification))
  /\ iteration' = iteration + 1
  /\ pc' = "loop"
  /\ UNCHANGED <<max_iterations, playwright, browser, page, calls, pageCalls,
                 execLog, exit, pst>>

\* the for loop ends: return the fixed message
Exhausted ==
  /\ pc = "loop"
  /\ iteration >= max_iterations
  /\ exit' = Return("exhausted", Exhaustion)
  /\ pc' = "finally"
  /\ UNCHANGED <<max_iterations, iteration, messages, playwright, browser, page,
                 calls, pageCalls, execLog, pst>>

\* finally: stop_browser, then control leaves run
Finally(failAt) ==
  /\ pc = "finally"
  /\ LET h == stop_browser([playwright |-> playwright, browser |-> browser,
                            page |-> page], failAt) IN
       /\ playwright' = h.playwright
       /\ browser' = h.browser
       /\ page' = h.page
       /\ exit' = IF h.raised THEN Raise("stop") ELSE exit
  /\ calls' = Append(calls, "stop_browser")
  /\ pc' = "done"
  /\ UNCHANGED <<max_iterations, iteration, messages, pageCalls, execLog, pst>>

Init ==
  /\ pc = "idle"
  /\ max_iterations \in 1..MaxConfiguredIterations
  /\ iteration = 0
  /\ messages = <<>>
  /\ playwright = "none"
  /\ browser = "none"
  /\ page = "none"
  /\ calls = <<>>
  /\ pageCalls = <<>>
  /\ execLog = <<>>
  /\ exit = NoExit
  /\ pst = ParseInit(<<>>)

Next ==
  \/ \E failAt \in 0..3 : RunStart(failAt)
  \/ \E r \in Responses : ModelReturns(r)
  \/ ModelFails
  \/ ParseRaises
  \/ Finish
  \/ \E ok \in BOOLEAN : Execute(ok)
  \/ Clarify
  \/ Exhausted
  \/ \E failAt \in 0..3 : Finally(failAt)

Spec == Init /\ [][Next]_vars

(***************************************************************************)
(* The parser on its own: every text of at most MaxLines lines             *)
(***************************************************************************)
DefaultMaxIterations == 10

ParserLines ==
  {LThought, LNavigate, LHover, LInputUrl, LInputList, LInputTruncated,
   LInputBad, LFinal, LPlain,
   <<"Action Input:">>, <<"SP", "{", "url=u", ",">>, <<"selector=s", "}", "SP">>,
   LActionFinish, LFinalTwice, LActionTwice, <<"SP", "Thought:", "why", "Thought:", "SP">>, <<>>}

ParserTexts ==
  {Join(ls) : ls \in UNION {[1..n -> ParserLines] : n \in 1..MaxLines}}

ParseStart ==
  /\ pc = "idle"
  /\ max_iterations = DefaultMaxIterations
  /\ iteration = 0
  /\ messages = <<>>
  /\ playwright = "none"
  /\ browser = "none"
  /\ page = "none"
  /\ calls = <<>>
  /\ pageCalls = <<>>
  /\ execLog = <<>>
  /\ exit = NoExit
  /\ pst \in {ParseInit(t) : t \in ParserTexts}

\* one iteration of the while loop of parse_llm_response
ParseLine ==
  /\ pst.status = "scan"
  /\ pst' = ParseStep(pst)
  /\ UNCHANGED runVars

ParseSpec == ParseStart /\ [][ParseLine]_vars

(***************************************************************************)
(* The parser on responses in the expected format: a Thought line, an      *)
(* Action line, an Action Input block, and possibly one more marker line   *)
(***************************************************************************)
LThoughtTwice == <<"SP", "Thought:", "why", "Thought:", "SP">>

ThoughtLines == {LThought, LThoughtTwice}
ActionLines == {LNavigate, LHover, LActionTwice}
InputLines ==
  {LInputUrl, <<"Action Input:">>, <<"Action Input:", "SP", "{">>,
   <<"Action Input:", "{", "url=u", ",">>}
BlockLines ==
  {<<"SP", "{", "url=u", ",">>, <<"selector=s", "}", "SP">>, <<"}">>, <<"{">>,
   <<"url=u">>, <<>>, LPlain}
TrailerLines == {LThought, LNavigate, LFinal}

ReActTexts ==
  {Join(<<t, a, i>> \o b \o tr) :
     t \in ThoughtLines, a \in ActionLines, i \in InputLines,
     b \in UNION {[1..n -> BlockLines] : n \in 0..MaxBlockLines},
     tr \in {<<>>} \cup {<<l>> : l \in TrailerLines}}

ReActStart ==
  /\ pc = "idle"
  /\ max_iterations = DefaultMaxIterations
  /\ iteration = 0
  /\ messages = <<>>
  /\ playwright = "none"
  /\ browser = "none"
  /\ page = "none"
  /\ calls = <<>>
  /\ pageCalls = <<>>
  /\ execLog = <<>>
  /\ exit = NoExit
  /\ pst \in {ParseInit(t) : t \in ReActTexts}

ReActSpec == ReActStart /\ [][ParseLine]_vars

(***************************************************************************)
(* execute_action called directly on an agent whose page was set           *)
(***************************************************************************)
ActionNames ==
  {<<"navigate">>, <<"click">>, <<"type">>, <<"get_text">>, <<"screenshot">>,
   <<"hover">>, <<"FINISH">>, <<"unknown">>}

KnownActions ==
  {<<"navigate">>, <<"click">>, <<"type">>, <<"get_text">>, <<"screenshot">>}

ParamValues ==
  {json_loads(<<"{", "}">>).val,
   json_loads(<<"{", "url=u", "}">>).val,
   json_loads(<<"{", "selector=s", "}">>).val,
   json_loads(<<"{", "selector=s", ",", "text=t", "}">>).val,
   json_loads(<<"{", "path=p", "}">>).val,
   json_loads(<<"[", "]">>).val,
   json_loads(<<"5">>).val}

ExecStart ==
  /\ pc = "direct"
  /\ max_iterations = DefaultMaxIterations
  /\ iteration = 0
  /\ messages = <<>>
  /\ playwright = "none"
  /\ browser = "none"
  /\ page \in {"none", "open", "closed"}
  /\ calls = <<>>
  /\ pageCalls = <<>>
  /\ execLog = <<>>
  /\ exit = NoExit
  /\ pst = ParseInit(<<>>)

\* agent.execute_action(action, params); a call on a closed page fails
DirectExecute(action, params, ok) ==
  /\ pc = "direct"
  /\ ok => page = "open"
  /\ LET r == execute_action(page, action, params, ok) IN
       /\ pageCalls' = pageCalls \o r.pcalls
       /\ execLog' = Append(execLog,
                            [action |-> action, params |-> params, ok |-> ok,
                             raised |-> r.raised, result |-> r.result])
  /\ calls' = Append(calls, "execute_action")
  /\ pc' = "direct_done"
  /\ UNCHANGED <<max_iterations, iteration, messages, playwright, browser, page,
                 exit, pst>>

ExecNext ==
  \E action \in ActionNames, params \in ParamValues, ok \in BOOLEAN :
    DirectExecute(action, params, ok)

ExecSpec == ExecStart /\ [][ExecNext]_vars

(***************************************************************************)
(* The agent after run has returned or raised: execute_action called on it *)
(***************************************************************************)
\* agent.execute_action(action, params) after agent.run(...); self.page is
\* whatever stop_browser left, and a call on a closed page fails
CallAfterRun(action, params, ok) ==
  /\ pc = "done"
  /\ ok => page = "open"
  /\ LET r == execute_action(page, action, params, ok) IN
       /\ pageCalls' = pageCalls \o r.pcalls
       /\ execLog' = Append(execLog,
                            [action |-> action, params |-> params, ok |-> ok,
                             raised |-> r.raised, result |-> r.result])
  /\ calls' = Append(calls, "execute_action")
  /\ pc' = "after"
  /\ UNCHANGED <<max_iterations, iteration, messages, playwright, browser, page,
                 exit, pst>>

AgentNext ==
  \/ Next
  \/ \E action \in {<<"navigate">>, <<"unknown">>},
        params \in {EmptyDict, json_loads(<<"{", "url=u", "}">>).val},
        ok \in BOOLEAN :
       CallAfterRun(action, params, ok)

AgentSpec == Init /\ [][AgentNext]_vars

(***************************************************************************)
(* Properties                                                              *)
(***************************************************************************)
Count(seq, e) == Len(SelectSeq(seq, LAMBDA x : x = e))

ModelInvocations == Count(calls, "model")
ExecutorInvocations == Count(calls, "execute_action")

\* the model messages of the transcript, in order
AssistantMessages == SelectSeq(messages, LAMBDA m : m.role = "assistant")

IsPrefix(a, b) == Len(a) <= Len(b) /\ SubSeq(b, 1, Len(a)) = a

IsObservation(m) == m.role = "user" /\ startswith(m.content, "Observation:")
IsClarification(m) == m = Message("user", Clarification)

\* C1: for every N, if the response of iteration N is the first one with a
\* line beginning "Final Answer:", then once the loop is left there were exactly
\* N model invocations, at most N-1 executor invocations, and run returns.
C1_FinalAtN ==
  \A N \in 1..max_iterations :
    ( /\ pc = "finally"
      /\ Len(AssistantMessages) >= N
      /\ HasFinalLine(AssistantMessages[N].content)
      /\ \A k \in 1..(N-1) : ~HasFinalLine(AssistantMessages[k].content) )
    => /\ ModelInvocations = N
       /\ ExecutorInvocations <= N - 1
       /\ exit.kind = "return"

\* C2: if the browser started, no model call failed and no response carried a
\* "Final Answer:" line, then once the loop is left run returns the fixed
\* exhaustion message after exactly max_iterations model invocations.
C2_Exhaustion ==
  ( /\ pc = "finally"
    /\ exit.cause \notin {"start", "model"}
    /\ \A k \in 1..Len(AssistantMessages) :
         ~HasFinalLine(AssistantMessages[k].content) )
  => /\ exit = Return("exhausted", Exhaustion)
     /\ ModelInvocations = max_iterations

\* C3: when control has left run, stop_browser has run, as the last call of the
\* run; and at no time does a model or executor invocation follow stop_browser.
C3_ReleasedOnEveryExit ==
  /\ pc = "done" =>
       /\ Count(calls, "stop_browser") = 1
       /\ calls[Len(calls)] = "stop_browser"
  /\ \A i \in 1..Len(calls) : \A j \in (i+1)..Len(calls) :
       calls[i] = "stop_browser" => calls[j] \notin {"model", "execute_action"}

\* a run that executed an action, then met a failing model call, and was released
C3_Witness ==
  /\ pc = "done"
  /\ exit = Raise("model")
  /\ ExecutorInvocations >= 1
  /\ page = "closed"

\* C4: the try block of run is left by an exception only when a model
\* invocation failed or the browser failed to start.
C4_OnlyFatalFailures ==
  (pc = "finally" /\ exit.kind = "raise") => exit.cause \in {"model", "start"}

\* C5: parse_llm_response never raises, whatever the text.
C5_ParserNeverRaises == pst.status # "raised"

\* C6: the transcript is empty before it is seeded; afterwards it starts with the
\* system message and the task message, then alternates model messages with user
\* messages that are an Observation or the clarification request; an iteration
\* has appended its model message and, unless it ended the run, one user message.
C6_TranscriptShape ==
  /\ messages # <<>> =>
       /\ Len(messages) >= 2
       /\ messages[1] = Message("system", SystemPrompt)
       /\ messages[2].role = "user"
       /\ startswith(messages[2].content, "Task:")
       /\ \A k \in 3..Len(messages) :
            IF k % 2 = 1
              THEN messages[k].role = "assistant"
              ELSE IsObservation(messages[k]) \/ IsClarification(messages[k])
  /\ pc = "loop" => Len(messages) = 2 + 2 * iteration
  /\ pc = "parse" => Len(messages) = 3 + 2 * iteration
  /\ (pc \in {"finally", "done"} /\ messages # <<>>) =>
       Len(messages) \in {2 + 2 * iteration, 3 + 2 * iteration}

\* a finished run whose transcript holds an observation and a clarification
C6_Witness ==
  /\ pc = "done"
  /\ \E k \in 1..Len(messages) : IsObservation(messages[k])
  /\ \E k \in 1..Len(messages) : IsClarification(messages[k])
  /\ messages[Len(messages)].role = "assistant"

\* C7: the step taken after a model message was parsed: FINISH returns the
\* reasoning with no executor call and no append; a non-empty action calls the
\* executor once with (action, parameters) and appends "Observation: <outcome>";
\* an empty action calls nothing and appends the clarification request.
C7_DispatchStep ==
  (pc = "parse" /\ ~Directive.raised) =>
    IF Directive.action = <<"FINISH">>
      THEN /\ exit' = Return("final", Directive.thought)
           /\ pc' = "finally"
           /\ calls' = calls
           /\ execLog' = execLog
           /\ messages' = messages
    ELSE IF Directive.action # <<>>
      THEN /\ calls' = Append(calls, "execute_action")
           /\ Len(execLog') = Len(execLog) + 1
           /\ SubSeq(execLog', 1, Len(execLog)) = execLog
           /\ execLog'[Len(execLog')].action = Directive.action
           /\ execLog'[Len(execLog')].params = Directive.params
           /\ messages' =
                Append(messages,
                       Message("user",
                               <<"Observation:", "SP">>
                                 \o json_dumps(execLog'[Len(execLog')].result)))
           /\ exit' = exit
    ELSE /\ calls' = calls
         /\ execLog' = execLog
         /\ messages' = Append(messages, Message("user", Clarification))
         /\ exit' = exit

C7_Dispatch == [][C7_DispatchStep]_vars

\* one run that took the clarification branch, the executor branch with parsed
\* parameters, and then the terminal branch
C7_Witness ==
  /\ exit = Return("final", <<"done">>)
  /\ \E k \in 1..Len(messages) : IsClarification(messages[k])
  /\ \E k \in 1..Len(execLog) : execLog[k].params.items # {}

\* C8: every step leaves the earlier transcript as a prefix of the later one.
C8_AppendOnly == [][IsPrefix(messages, messages')]_vars

\* an observation appended after a clarification request
C8_Witness ==
  \E k \in 1..Len(messages) : \E j \in (k+1)..Len(messages) :
    IsClarification(messages[k]) /\ IsObservation(messages[j])

\* C9: an executor invocation directly follows a model invocation (so none
\* precedes the first model call and no two are adjacent); iteration k has made
\* exactly one model invocation when it parses, and completed iterations made
\* one model invocation and at most one executor invocation each.
C9_CallOrder ==
  /\ \A i \in 1..Len(calls) :
       calls[i] = "execute_action" => (i > 1 /\ calls[i-1] = "model")
  /\ pc = "loop" => ModelInvocations = iteration
  /\ pc = "parse" => ModelInvocations = iteration + 1
  /\ pc \in {"finally", "done"} => ModelInvocations \in {iteration, iteration + 1}
  /\ ExecutorInvocations <= iteration

\* two executor invocations in one run, and an iteration without one
C9_Witness ==
  /\ ExecutorInvocations >= 2
  /\ ExecutorInvocations < iteration

\* C10: execute_action does not raise; with an unknown action, a parameters
\* value that is not a mapping, or a failing page call, the outcome has
\* success = false and an error message.
C10_ExecutorNeverRaises ==
  \A k \in 1..Len(execLog) :
    LET e == execLog[k] IN
      /\ ~e.raised
      /\ (e.action \notin KnownActions \/ e.params.type # "dict" \/ ~e.ok)
           => (~e.result.success /\ e.result.key = "error" /\ e.result.value # <<>>)

\* a known action handed a JSON list, on an open page
C10_Witness ==
  /\ page = "open"
  /\ \E k \in 1..Len(execLog) :
       /\ execLog[k].action \in KnownActions
       /\ execLog[k].params.type = "list"
       /\ ~execLog[k].result.success

\* C11: an action name outside the five known ones gives an outcome with
\* success = false and an error, and no call on the page is made.
C11_UnknownActionNoPageCall ==
  \A k \in 1..Len(execLog) :
    execLog[k].action \notin KnownActions
      => /\ ~execLog[k].result.success
         /\ execLog[k].result.key = "error"
         /\ pageCalls = <<>>

\* execute_action("unknown", {}) on an agent whose page is open
C11_Witness ==
  /\ page = "open"
  /\ pageCalls = <<>>
  /\ \E k \in 1..Len(execLog) :
       /\ execLog[k].action = <<"unknown">>
       /\ execLog[k].params = EmptyDict
       /\ execLog[k].result = Failure(<<"Unknown action:", "unknown">>)

\* a model invocation that raised appended no model message
ModelFailed == ModelInvocations > Len(AssistantMessages)

\* start_browser raised: run left the try block before the transcript was seeded
StartFailed == pc \in {"finally", "done"} /\ messages = <<>>

\* C12: a failed model invocation is not repeated and is the last model or
\* executor invocation of the run, stop_browser runs and run raises; when
\* start_browser fails there is no model and no executor invocation at all.
C12_FatalStopsRun ==
  /\ ModelInvocations <= Len(AssistantMessages) + 1
  /\ ModelFailed =>
       /\ pc \in {"finally", "done"}
       /\ \E i \in 1..Len(calls) :
            /\ calls[i] = "model"
            /\ \A j \in (i+1)..Len(calls) : calls[j] = "stop_browser"
       /\ pc = "done" => (exit.kind = "raise" /\ Count(calls, "stop_browser") = 1)
  /\ StartFailed =>
       /\ ModelInvocations = 0
       /\ ExecutorInvocations = 0
       /\ pc = "done" => exit.kind = "raise"

\* the third model invocation of a run fails after two that returned
C12_Witness ==
  /\ pc = "done"
  /\ ModelFailed
  /\ Len(AssistantMessages) = 2
  /\ ModelInvocations = 3
  /\ exit.kind = "raise"

\* the scan was stopped by the break at a line beginning "Final Answer:"
StoppedAtFinal == pst.status = "done" /\ pst.i <= Len(pst.lines)

\* C13: when the scan reaches a line beginning "Final Answer:", the action is
\* FINISH, the reasoning is the trimmed remainder of that line, and the result
\* is that of the text cut after that line.
C13_FinalAnswerLine ==
  StoppedAtFinal =>
    LET line == strip(pst.lines[pst.i])
        cut == parse_llm_response(Join(SubSeq(pst.lines, 1, pst.i)))
    IN  /\ pst.action = <<"FINISH">>
        /\ pst.thought = strip(Tail(line))
        /\ cut.thought = pst.thought
        /\ cut.action = pst.action
        /\ cut.params = pst.params

IsMarkerLine(line) ==
  \E m \in StopMarkers \cup {"Action Input:"} : startswith(strip(line), m)

\* the text is a Thought line, an Action line and an Action Input line
InExpectedFormat(lines) ==
  /\ Len(lines) >= 3
  /\ startswith(strip(lines[1]), "Thought:")
  /\ startswith(strip(lines[2]), "Action:")
  /\ startswith(strip(lines[3]), "Action Input:")

\* the first line after the Action Input line that begins with "Thought:",
\* "Action:" or "Final Answer:"; Len + 1 when there is none
BlockEnd(lines) ==
  LET stops == {k \in 4..Len(lines) :
                  \E m \in StopMarkers : startswith(strip(lines[k]), m)}
  IN  IF stops = {} THEN Len(lines) + 1
      ELSE CHOOSE k \in stops : \A j \in stops : k <= j

\* the rest of the Action Input line and the lines of its block
BlockText(lines) ==
  Join(<<strip(Tail(strip(lines[3])))>>
         \o [k \in 1..(BlockEnd(lines) - 4) |-> strip(lines[k + 3])])

\* C14: for a Thought line, an Action line and an Action Input block that holds a
\* JSON object and runs over non-marker lines up to the first line beginning
\* "Thought:", "Action:" or "Final Answer:" or the end of input, the parser
\* returns the object as parameters and, when nothing follows the block, the
\* remainders of the Thought and Action lines as reasoning and action.
C14_ExpectedFormat ==
  ( /\ pst.status \in {"done", "raised"}
    /\ InExpectedFormat(pst.lines)
    /\ \A k \in 4..(BlockEnd(pst.lines) - 1) : ~IsMarkerLine(pst.lines[k])
    /\ json_loads(BlockText(pst.lines)).ok
    /\ json_loads(BlockText(pst.lines)).val.type = "dict" )
  => /\ pst.status = "done"
     /\ pst.params = json_loads(BlockText(pst.lines)).val
     /\ BlockEnd(pst.lines) > Len(pst.lines) =>
          /\ pst.thought = strip(Tail(strip(pst.lines[1])))
          /\ pst.action = strip(Tail(strip(pst.lines[2])))

NoLineBegins(lines, marker) ==
  \A k \in 1..Len(lines) : ~startswith(strip(lines[k]), marker)

\* C15: for a text with no line beginning "Final Answer:" and no line beginning
\* "Action:", the parser does not raise and returns an empty action and empty
\* parameters.
C15_NoDirective ==
  ( /\ pst.status \in {"done", "raised"}
    /\ NoLineBegins(pst.lines, "Final Answer:")
    /\ NoLineBegins(pst.lines, "Action:") )
  => /\ pst.status = "done"
     /\ pst.action = <<>>
     /\ pst.params = EmptyDict

\* C16: once run is over the agent does not hold the page of that run, so an
\* execute_action call made then finds no page: it answers "Browser not started"
\* and makes no call on the page of the run.
C16_NothingSurvivesStep ==
  (pc = "done" /\ pc' = "after") =>
    /\ page = "none"
    /\ pageCalls' = pageCalls
    /\ execLog'[Len(execLog')].result = Failure(<<"Browser not started">>)

C16_NothingSurvives == [][C16_NothingSurvivesStep]_vars

\* C17: the step that scans a line beginning "Thought:" sets the reasoning to
\* the trimmed rest of the line after the leading marker, and the step that
\* scans a line beginning "Action:" sets the action likewise, whatever the
\* earlier value and whatever the rest of the line holds.
C17_MarkerLineStep ==
  (pst.status = "scan" /\ pst.i <= Len(pst.lines)) =>
    LET line == strip(pst.lines[pst.i])
    IN  /\ startswith(line, "Thought:") => pst'.thought = strip(Tail(line))
        /\ startswith(line, "Action:") => pst'.action = strip(Tail(line))

C17_MarkerLine == [][C17_MarkerLineStep]_vars

\* the first line after line i that begins with "Thought:", "Action:" or
\* "Final Answer:"; Len + 1 when there is none
NextStop(lines, i) ==
  LET stops == {k \in (i+1)..Len(lines) :
                  \E m \in StopMarkers : startswith(strip(lines[k]), m)}
  IN  IF stops = {} THEN Len(lines) + 1
      ELSE CHOOSE k \in stops : \A j \in stops : k <= j

\* C18: every step of the scan leaves the lines alone and either stops the scan
\* or moves the cursor forward, never past the line after the last: by one line
\* for a marker line or a plain line, and for an Action Input line to the line
\* that ends its block, so that line is the next one scanned and the lines in
\* between belong to this block only.
C18_ScanStep ==
  pst.status = "scan" =>
    /\ pst'.lines = pst.lines
    /\ pst'.i <= Len(pst.lines) + 1
    /\ IF pst.i > Len(pst.lines)
         THEN pst'.status = "done" /\ pst'.i = pst.i
       ELSE IF startswith(strip(pst.lines[pst.i]), "Final Answer:")
         THEN pst'.status = "done" /\ pst'.i = pst.i
       ELSE IF startswith(strip(pst.lines[pst.i]), "Action Input:")
         THEN \/ pst'.status = "raised"
              \/ pst'.status = "scan" /\ pst'.i = NextStop(pst.lines, pst.i)
       ELSE pst'.status = "scan" /\ pst'.i = pst.i + 1

C18_SinglePass == [][C18_ScanStep]_vars

\* a Final Answer line that ended a two-line Action Input block and was then
\* scanned as a marker
C18_Witness ==
  /\ StoppedAtFinal
  /\ pst.i = 3
  /\ startswith(strip(pst.lines[1]), "Action Input:")
  /\ pst.lines[2] = LPlain
  /\ pst.action = <<"FINISH">>
  /\ pst.params.items # {}

\* some step of run can be taken: the guards of the actions of Next
CanStep ==
  \/ pc = "idle"
  \/ pc = "loop" /\ (iteration < max_iterations \/ iteration >= max_iterations)
  \/ /\ pc = "parse"
     /\ Directive.raised \in BOOLEAN
     /\ \/ Directive.raised
        \/ Directive.action = <<"FINISH">>
        \/ Directive.action # <<"FINISH">> /\ Directive.action # <<>>
        \/ Directive.action = <<>>
  \/ pc = "finally"

\* what is left of a run: the iterations not yet made, then the position in
\* the current one
RunVariant ==
  IF pc = "done" THEN 0
  ELSE IF pc = "finally" THEN 1
  ELSE IF pc = "idle" THEN 3 * max_iterations + 4
  ELSE 3 * (max_iterations - iteration) + (IF pc = "loop" THEN 3 ELSE 2)

\* C19: every run ends: while run has not ended a step can be taken, and every
\* step lowers a natural number that is 0 only once run has ended; it has then
\* returned or raised, a return being the final reasoning or, after exactly
\* max_iterations iterations, the fixed message; no run makes more than
\* max_iterations model invocations; and once run has a value to return nothing
\* follows but stop_browser.
C19_RunEnds ==
  /\ [](/\ RunVariant \in Nat
        /\ RunVariant = 0 <=> pc = "done"
        /\ pc # "done" => CanStep
        /\ ModelInvocations <= max_iterations
        /\ iteration <= max_iterations
        /\ pc = "done" =>
             /\ exit.kind \in {"return", "raise"}
             /\ exit.kind = "return" => exit.cause \in {"final", "exhausted"}
             /\ exit.cause = "exhausted" =>
                  (exit.value = Exhaustion /\ iteration = max_iterations))
  /\ [][RunVariant' < RunVariant]_vars
  /\ [][exit.kind = "return" =>
          /\ pc' = "done"
          /\ calls' = Append(calls, "stop_browser")
          /\ messages' = messages
          /\ iteration' = iteration]_vars

\* a run that used up its iterations and returned the fixed message
C19_Witness ==
  /\ pc = "done"
  /\ exit = Return("exhausted", Exhaustion)
  /\ iteration = max_iterations
  /\ iteration >= 2

\* C20: the parser returns the terminal sentinel only for a response with a
\* line beginning "Final Answer:", and run returns through the FINISH branch
\* only on such a response.
C20_OnlyTerminalMarker ==
  /\ (pc = "parse" /\ ~Directive.raised /\ Directive.action = <<"FINISH">>)
       => HasFinalLine(messages[Len(messages)].content)
  /\ exit.cause = "final" => HasFinalLine(messages[Len(messages)].content)

\* the Action Input block the scan is at, as accumulated by the code
BlockAt(st) ==
  Accumulate(st.lines, st.i + 1,
             strip(replace(strip(st.lines[st.i]), "Action Input:"))).str

\* the block is JSON, or its part from the first "{" to the last "}" is
BlockParses(json_str) ==
  \/ json_loads(json_str).ok
  \/ /\ Contains(json_str, "{") /\ Contains(json_str, "}")
     /\ json_loads(SubSeq(json_str, index(json_str, "{"),
                          rindex(json_str, "}"))).ok

\* C21: each Action Input block the scan passes without raising replaces the
\* parameters: a block that fails to parse leaves them empty, whatever an
\* earlier block had set, so the parameters returned are those of the last
\* block only.
C21_LastBlockStep ==
  ( /\ pst.status = "scan"
    /\ pst.i <= Len(pst.lines)
    /\ startswith(strip(pst.lines[pst.i]), "Action Input:")
    /\ pst'.status = "scan"
    /\ ~BlockParses(BlockAt(pst)) )
  => pst'.params = EmptyDict

C21_LastBlockOnly == [][C21_LastBlockStep]_vars

\* C22: when control has left run no handle that start_browser acquired is
\* left open, except the one whose close call failed: after a start that
\* failed part-way the handles already acquired are closed, and after a failing
\* page or browser close the handles that remain are closed all the same.
C22_EverythingReleased ==
  pc = "done" =>
    /\ exit.cause # "stop" =>
         (page # "open" /\ browser # "open" /\ playwright # "open")
    /\ page = "open" => (browser # "open" /\ playwright # "open")
    /\ browser = "open" => playwright # "open"

====
